---- MODULE Spec2Model ----
(***************************************************************************)
(* Model of the content-enrichment core of the auto-post bot:              *)
(*   - FilenameParser.parse        (src/modules/filename_parser.py)        *)
(*   - TMDBClient.search and helpers (src/modules/tmdb_client.py)          *)
(*   - PosterGenerator.create_poster (src/modules/poster_generator.py)     *)
(*   - process_file and the poster cache (src/main.py,                     *)
(*     src/modules/database.py)                                            *)
(* Strings are sequences of one-character strings, so that the regular     *)
(* expressions of the parser are matched character by character.           *)
(* Optional[int] is <<>> for None and <<n>> for the integer n.             *)
(***************************************************************************)
EXTENDS Integers, Sequences, FiniteSets, TLC

VARIABLES
    filename,   \* parser: the argument of FilenameParser.parse being assembled
    npieces,    \* parser: number of pieces the argument was assembled from
    parsed,     \* parser: TRUE once parse has returned
    meta,       \* parser: the dict returned by parse (MediaMeta.to_dict)
    pickQuery,  \* matcher: the title and year _pick_best is called with
    pickList,   \* matcher: the result list _pick_best is called with
    picked,     \* matcher: index in pickList of the item _pick_best returned, 0 before the call
    session,    \* client: TMDBClient._session, 0 for None, else the id of a session object
    openSessions, \* client: ids of the session objects that are not closed
    created,    \* client: number of session objects constructed so far
    files,      \* client: the artwork cache directory, by catalog id
    run,        \* client: the state of each invocation of TMDBClient.search
    calls,      \* client: number of invocations of search started so far
    pmeta,      \* renderer: the metadata record create_poster is called with
    ptmdb,      \* renderer: the enrichment create_poster is called with
    praw,       \* renderer: the file at the local artwork path
    pfile,      \* renderer: the file at the output path of pmeta
    poster,     \* renderer: what create_poster has done and returned
    cache,      \* pipeline: the poster_cache collection, by key
    posterDir,  \* pipeline: the poster files on disk, by path
    proc,       \* pipeline: the state of the running process_file
    degraded,   \* pipeline: keys whose last returned search was a degraded result
    nruns       \* pipeline: number of runs of process_file started so far

parserVars == <<filename, npieces, parsed, meta>>
pickVars == <<pickQuery, pickList, picked>>
clientVars == <<session, openSessions, created, files, run, calls>>
posterVars == <<pmeta, ptmdb, praw, pfile, poster>>
procVars == <<cache, posterDir, proc, degraded, nruns>>
vars == <<filename, npieces, parsed, meta, pickQuery, pickList, picked,
          session, openSessions, created, files, run, calls,
          pmeta, ptmdb, praw, pfile, poster,
          cache, posterDir, proc, degraded, nruns>>

(***************************************************************************)
(* Bounds                                                                  *)
(***************************************************************************)
\* a filename is the concatenation of at most MaxPieces pieces
MaxPieces == 4

\* the pieces filenames are assembled from: a title letter, a digit, the four
\* separators, a year, a season/episode marker, a quality tag, a rip tag
\* and an extension
Pieces ==
    { <<"S">>, <<"2">>,
      <<".">>, <<"_">>, <<"-">>, <<" ">>,
      <<"2","0","2","3">>,
      <<"s","2","E","0","3">>,
      <<"4","K">>, <<"N","F">>,
      <<".","m","k","v">> }

\* _pick_best is called with at most MaxCandidates candidates
MaxCandidates == 2

\* a search response lists at most MaxResults candidates
MaxResults == 2

\* search is invoked at most MaxCalls times
MaxCalls == 2

\* at most MaxSessions session objects are constructed
MaxSessions == 2

\* an artwork transfer has NumChunks chunks
NumChunks == 2

\* process_file is run at most MaxRuns times
MaxRuns == 3

\* the characters a filename of the model can contain
Alphabet == UNION {{p[k] : k \in 1..Len(p)} : p \in Pieces}

(***************************************************************************)
(* Characters                                                              *)
(***************************************************************************)
None == <<>>
Some(x) == <<x>>

Digits ==
    <<"0","1","2","3","4","5","6","7","8","9">>

UpperLetters ==
    <<"A","B","C","D","E","F","G","H","I","J","K","L","M","N","O","P","Q","R","S","T","U","V","W","X","Y","Z">>
LowerLetters ==
    <<"a","b","c","d","e","f","g","h","i","j","k","l","m","n","o","p","q","r","s","t","u","v","w","x","y","z">>

DigitSet == {Digits[k] : k \in 1..10}
UpperSet == {UpperLetters[k] : k \in 1..26}
LowerSet == {LowerLetters[k] : k \in 1..26}

LowerMap == [c \in UpperSet |-> LowerLetters[CHOOSE k \in 1..26 : UpperLetters[k] = c]]
UpperMap == [c \in LowerSet |-> UpperLetters[CHOOSE k \in 1..26 : LowerLetters[k] = c]]
DigitMap == [c \in DigitSet |-> (CHOOSE k \in 1..10 : Digits[k] = c) - 1]

IsDigit(c) == c \in DigitSet
IsCased(c) == c \in UpperSet \/ c \in LowerSet
\* \w of the re module: letters, digits and the underscore
IsWord(c) == IsCased(c) \/ IsDigit(c) \/ c = "_"
IsSpace(c) == c = " "
Lower(c) == IF c \in UpperSet THEN LowerMap[c] ELSE c
Upper(c) == IF c \in LowerSet THEN UpperMap[c] ELSE c

\* str.lower() / str.upper()
StrLower(s) == [k \in 1..Len(s) |-> Lower(s[k])]
StrUpper(s) == [k \in 1..Len(s) |-> Upper(s[k])]

\* int() of a string of decimal digits
RECURSIVE IntOf(_)
IntOf(s) ==
    IF s = <<>> THEN 0
    ELSE 10 * IntOf(SubSeq(s, 1, Len(s) - 1)) + DigitMap[s[Len(s)]]

Min(S) == CHOOSE x \in S : \A y \in S : x <= y
Max(S) == CHOOSE x \in S : \A y \in S : x >= y

(***************************************************************************)
(* The pattern tables of filename_parser.py, one alternative per entry, in *)
(* the order of the source.                                                *)
(***************************************************************************)
QualityTags ==
    << <<"4","8","0","p">>,
       <<"7","2","0","p">>,
       <<"1","0","8","0","p">>,
       <<"2","1","6","0","p">>,
       <<"4","K">> >>

RipTypeTags ==
    << <<"H","D","R","i","p">>,
       <<"W","E","B","-","D","L">>,
       <<"W","E","B","R","i","p">>,
       <<"B","l","u","R","a","y">>,
       <<"B","D","R","i","p">>,
       <<"D","V","D","R","i","p">>,
       <<"H","D","T","V">>,
       <<"A","M","Z","N">>,
       <<"N","F">>,
       <<"D","S","N","P">>,
       <<"S","o","n","y","L","I","V">>,
       <<"Z","E","E","5">>,
       <<"H","o","t","s","t","a","r">> >>

CodecTags ==
    << <<"x","2","6","4">>,
       <<"x","2","6","5">>,
       <<"H","2","6","4">>,
       <<"H","2","6","5">>,
       <<"H","E","V","C">>,
       <<"A","V","C">>,
       <<"1","0","b","i","t">>,
       <<"H","D","R">>,
       <<"S","D","R">>,
       <<"D","V">>,
       <<"D","o","V","i">> >>

AudioTags ==
    << <<"A","A","C">>,
       <<"D","D","5",".","1">>,
       <<"D","D","P","5",".","1">>,
       <<"D","T","S">>,
       <<"A","C","3">>,
       <<"T","r","u","e","H","D">>,
       <<"A","t","m","o","s">>,
       <<"F","L","A","C">>,
       <<"M","P","3">>,
       <<"2",".","0">>,
       <<"5",".","1">>,
       <<"7",".","1">> >>

LanguageTags ==
    << <<"H","i","n","d","i">>,
       <<"T","a","m","i","l">>,
       <<"T","e","l","u","g","u">>,
       <<"M","a","l","a","y","a","l","a","m">>,
       <<"K","a","n","n","a","d","a">>,
       <<"B","e","n","g","a","l","i">>,
       <<"E","n","g","l","i","s","h">>,
       <<"M","u","l","t","i">>,
       <<"D","u","a","l">>,
       <<"O","R","G">>,
       <<"U","N","C","U","T">> >>

ExtensionTags ==
    << <<"m","k","v">>,
       <<"m","p","4">>,
       <<"a","v","i">>,
       <<"m","o","v">>,
       <<"t","s">>,
       <<"m","2","t","s">>,
       <<"f","l","v">> >>

JunkLiteralTags ==
    << <<"D","o","w","n","l","o","a","d">>,
       <<"R","E","P","A","C","K">>,
       <<"P","R","O","P","E","R">>,
       <<"I","N","T","E","R","N","A","L">>,
       <<"E","x","t","e","n","d","e","d">>,
       <<"T","h","e","a","t","r","i","c","a","l">>,
       <<"D","i","r","e","c","t","o","r","s",".","C","u","t">>,
       <<"C","r","i","t","e","r","i","o","n">>,
       <<"R","e","m","u","x">>,
       <<"U","H","D">>,
       <<"S","D","R">>,
       <<"I","M","A","X">>,
       <<"3","D">>,
       <<"S","B","S">>,
       <<"H","O","U">>,
       <<"D","U","B","B","E","D">>,
       <<"S","U","B","B","E","D">>,
       <<"E","S","u","b">>,
       <<"M","S","u","b">>,
       <<"H","a","r","d","S","u","b">> >>

(***************************************************************************)
(* Regular-expression matching                                             *)
(***************************************************************************)
CharAt(s, i) == IF i >= 1 /\ i <= Len(s) THEN s[i] ELSE "\n"
DigitAt(s, i) == i >= 1 /\ i <= Len(s) /\ IsDigit(s[i])
WordAt(s, i) == i >= 1 /\ i <= Len(s) /\ IsWord(s[i])

\* \b holds between the characters i-1 and i
WordBoundary(s, i) == WordAt(s, i - 1) # WordAt(s, i)

\* the literal t matches at i, ignoring case
LitAt(s, i, t) ==
    /\ i + Len(t) - 1 <= Len(s)
    /\ \A k \in 1..Len(t) : Lower(s[i + k - 1]) = Lower(t[k])

\* The alternatives of a table that a string over Alphabet can match: the
\* others contain a character no filename of the model has, so leaving them
\* out of the scan changes no match.
Spellable(t) == \A k \in 1..Len(t) : \E c \in Alphabet : Lower(c) = Lower(t[k])
RE_QUALITY   == SelectSeq(QualityTags, Spellable)
RE_RIP_TYPE  == SelectSeq(RipTypeTags, Spellable)
RE_CODEC     == SelectSeq(CodecTags, Spellable)
RE_AUDIO     == SelectSeq(AudioTags, Spellable)
RE_LANGUAGE  == SelectSeq(LanguageTags, Spellable)
RE_JUNK_TAGS == SelectSeq(JunkLiteralTags, Spellable)
RE_EXTENSION == SelectSeq(ExtensionTags, Spellable)

\* \b(t1|t2|...)\b at i: index of the first alternative that matches, else 0
AltAt(s, i, tags) ==
    LET ok == {k \in 1..Len(tags) :
                 LitAt(s, i, tags[k]) /\ WordBoundary(s, i + Len(tags[k]))}
    IN  IF ~WordBoundary(s, i) THEN 0
        ELSE IF ok # {} THEN Min(ok) ELSE 0

AltLenAt(s, i, tags) ==
    LET k == AltAt(s, i, tags) IN IF k = 0 THEN 0 ELSE Len(tags[k])

\* _RE_SERIES = [Ss](\d{1,2})[Ee](\d{1,2}) at i: number of season digits
SeriesSeasonDigits(s, i) ==
    IF Lower(CharAt(s, i)) # "s" THEN 0
    ELSE IF /\ DigitAt(s, i + 1) /\ DigitAt(s, i + 2)
            /\ Lower(CharAt(s, i + 3)) = "e" /\ DigitAt(s, i + 4) THEN 2
    ELSE IF /\ DigitAt(s, i + 1)
            /\ Lower(CharAt(s, i + 2)) = "e" /\ DigitAt(s, i + 3) THEN 1
    ELSE 0

\* the episode group as \d instead of \d{1,2}
SeriesEpisodeDigits_OneDigit(s, i) ==
    IF SeriesSeasonDigits(s, i) = 0 THEN 0 ELSE 1

SeriesEpisodeDigits(s, i) ==
    LET n1 == SeriesSeasonDigits(s, i)
    IN  IF n1 = 0 THEN 0 ELSE IF DigitAt(s, i + n1 + 3) THEN 2 ELSE 1

SeriesLenAt(s, i) ==
    LET n1 == SeriesSeasonDigits(s, i)
    IN  IF n1 = 0 THEN 0 ELSE 2 + n1 + SeriesEpisodeDigits(s, i)

\* the year pattern as \b(\d{4})\b
YearLenAt_AnyFourDigits(s, i) ==
    IF /\ WordBoundary(s, i)
       /\ \A k \in 0..3 : DigitAt(s, i + k)
       /\ WordBoundary(s, i + 4)
    THEN 4 ELSE 0

\* _RE_YEAR = \b(20[0-2]\d)\b at i
YearLenAt(s, i) ==
    IF /\ WordBoundary(s, i)
       /\ CharAt(s, i) = "2" /\ CharAt(s, i + 1) = "0"
       /\ CharAt(s, i + 2) \in {"0", "1", "2"}
       /\ DigitAt(s, i + 3)
       /\ WordBoundary(s, i + 4)
    THEN 4 ELSE 0

\* the alternative www\.\S+ of _RE_JUNK_TAGS at i: \S+ is greedy and gives
\* characters back until \b holds behind it
JunkWwwLenAt(s, i) ==
    LET ends == {j \in (i + 4)..Len(s) :
                   /\ \A k \in (i + 4)..j : ~IsSpace(s[k])
                   /\ WordBoundary(s, j + 1)}
    IN  IF /\ WordBoundary(s, i) /\ LitAt(s, i, <<"w","w","w",".">>)
           /\ ends # {}
        THEN Max(ends) - i + 1 ELSE 0

JunkLenAt(s, i) ==
    IF JunkWwwLenAt(s, i) > 0 THEN JunkWwwLenAt(s, i)
    ELSE AltLenAt(s, i, RE_JUNK_TAGS)

\* _RE_DOTS_DASHES = [\._\-]+ at i
IsDotDash(c) == c \in {".", "_", "-"}
RECURSIVE DotsDashesLenAt(_, _)
DotsDashesLenAt(s, i) ==
    IF i <= Len(s) /\ IsDotDash(s[i]) THEN 1 + DotsDashesLenAt(s, i + 1) ELSE 0

\* _RE_EXTENSION = \.(mkv|...)$ at i
ExtensionAt(s, i) ==
    LET ok == {k \in 1..Len(RE_EXTENSION) :
                 /\ LitAt(s, i + 1, RE_EXTENSION[k])
                 /\ i + Len(RE_EXTENSION[k]) = Len(s)}
    IN  IF CharAt(s, i) = "." /\ ok # {} THEN Min(ok) ELSE 0

ExtensionLenAt(s, i) ==
    LET k == ExtensionAt(s, i) IN IF k = 0 THEN 0 ELSE 1 + Len(RE_EXTENSION[k])

\* length of the match of the compiled pattern p at position i, 0 for none
MatchLen(p, s, i) ==
    CASE p = "SERIES"      -> SeriesLenAt(s, i)
      [] p = "YEAR"        -> YearLenAt(s, i)
      [] p = "QUALITY"     -> AltLenAt(s, i, RE_QUALITY)
      [] p = "RIP_TYPE"    -> AltLenAt(s, i, RE_RIP_TYPE)
      [] p = "CODEC"       -> AltLenAt(s, i, RE_CODEC)
      [] p = "AUDIO"       -> AltLenAt(s, i, RE_AUDIO)
      [] p = "LANGUAGE"    -> AltLenAt(s, i, RE_LANGUAGE)
      [] p = "JUNK_TAGS"   -> JunkLenAt(s, i)
      [] p = "DOTS_DASHES" -> DotsDashesLenAt(s, i)
      [] p = "EXTENSION"   -> ExtensionLenAt(s, i)

\* pattern.search(s): start of the leftmost match, 0 for no match
Search(p, s) ==
    LET hits == {i \in 1..Len(s) : MatchLen(p, s, i) > 0}
    IN  IF hits = {} THEN 0 ELSE Min(hits)

\* m.group(0) of the match of p that starts at i, "" when i is 0
GroupAt(p, s, i) ==
    IF i = 0 THEN <<>> ELSE SubSeq(s, i, i + MatchLen(p, s, i) - 1)

\* m.group(0) of pattern.search(s), "" when there is no match
Group(p, s) == GroupAt(p, s, Search(p, s))

\* pattern.sub(" ", s): every non-overlapping match, left to right
RECURSIVE SubFrom(_, _, _)
SubFrom(p, s, i) ==
    IF i > Len(s) THEN <<>>
    ELSE LET n == MatchLen(p, s, i)
         IN  IF n > 0 THEN <<" ">> \o SubFrom(p, s, i + n)
             ELSE <<s[i]>> \o SubFrom(p, s, i + 1)

Sub(p, s) == SubFrom(p, s, 1)

\* {m.group(1) for m in pattern.finditer(s)}
RECURSIVE FindAllFrom(_, _, _)
FindAllFrom(p, s, i) ==
    IF i > Len(s) THEN {}
    ELSE LET n == MatchLen(p, s, i)
         IN  IF n > 0 THEN {SubSeq(s, i, i + n - 1)} \cup FindAllFrom(p, s, i + n)
             ELSE FindAllFrom(p, s, i + 1)

(***************************************************************************)
(* String helpers of the title clean-up                                    *)
(***************************************************************************)
\* " ".join(s.split())
RECURSIVE JoinSplitFrom(_, _, _)
JoinSplitFrom(s, i, pending) ==
    IF i > Len(s) THEN <<>>
    ELSE IF IsSpace(s[i]) THEN JoinSplitFrom(s, i + 1, pending)
    ELSE (IF pending /\ i > 1 /\ IsSpace(s[i - 1]) THEN <<" ">> ELSE <<>>)
         \o <<s[i]>> \o JoinSplitFrom(s, i + 1, TRUE)

JoinSplit(s) == JoinSplitFrom(s, 1, FALSE)

\* str.title(): a cased character is upper-cased after an uncased one and
\* lower-cased after a cased one
StrTitle(s) ==
    [k \in 1..Len(s) |->
        IF k > 1 /\ IsCased(s[k - 1]) THEN Lower(s[k]) ELSE Upper(s[k])]

(***************************************************************************)
(* FilenameParser.parse                                                    *)
(***************************************************************************)
\* MediaMeta(raw_filename=f): the dataclass defaults
MediaMeta(f) ==
    [raw_filename |-> f, title |-> <<>>, year |-> None, season |-> None,
     episode |-> None, quality |-> <<>>, rip_type |-> <<>>, codec |-> <<>>,
     audio |-> <<>>, languages |-> {}, media_type |-> "movie",
     extension |-> <<>>]

TagPatterns == <<"QUALITY", "RIP_TYPE", "CODEC", "AUDIO", "LANGUAGE", "JUNK_TAGS", "YEAR">>

RECURSIVE RemoveTags(_, _)
RemoveTags(title, k) ==
    IF k > Len(TagPatterns) THEN title
    ELSE RemoveTags(Sub(TagPatterns[k], title), k + 1)

\* lines 89-93: the filename without a recognised extension
StripExtension(f) ==
    IF Search("EXTENSION", f) = 0 THEN f
    ELSE SubSeq(f, 1, Search("EXTENSION", f) - 1)

\* lines 126-135: the span of the filename the title is taken from
TitleSpan(f, series_m, year_m) ==
    IF series_m # 0 THEN SubSeq(f, 1, series_m - 1)
    ELSE IF year_m # 0 THEN SubSeq(f, 1, year_m - 1)
    ELSE f

\* lines 137-146
CleanTitle(span) ==
    StrTitle(JoinSplit(Sub("DOTS_DASHES", RemoveTags(span, 1))))

\* the groups of the series match at series_m
SeasonOf(f, series_m, n1) ==
    IntOf(SubSeq(f, series_m + 1, series_m + n1))

EpisodeOf(f, series_m, n1, n2) ==
    IntOf(SubSeq(f, series_m + n1 + 2, series_m + n1 + 1 + n2))

\* lines 95-148, given the extension match e, the stripped filename f and the
\* starts of the series and year matches in f (0 for no match)
ParseMatched(raw, e, f, series_m, year_m) ==
    [raw_filename |-> raw,
     title      |-> CleanTitle(TitleSpan(f, series_m, year_m)),
     year       |-> IF year_m # 0
                    THEN Some(IntOf(SubSeq(f, year_m, year_m + 3))) ELSE None,
     season     |-> IF series_m # 0
                    THEN Some(SeasonOf(f, series_m, SeriesSeasonDigits(f, series_m)))
                    ELSE None,
     episode    |-> IF series_m # 0
                    THEN Some(EpisodeOf(f, series_m, SeriesSeasonDigits(f, series_m),
                                        SeriesEpisodeDigits(f, series_m)))
                    ELSE None,
     quality    |-> StrUpper(Group("QUALITY", f)),
     rip_type   |-> Group("RIP_TYPE", f),
     codec      |-> Group("CODEC", f),
     audio      |-> Group("AUDIO", f),
     languages  |-> {StrTitle(StrLower(g)) : g \in FindAllFrom("LANGUAGE", f, 1)},
     media_type |-> IF series_m # 0 THEN "series" ELSE "movie",
     extension  |-> IF e = 0 THEN <<>>
                    ELSE StrLower(SubSeq(raw, e + 1, Len(raw)))]

ParseStripped(raw, e, f) ==
    ParseMatched(raw, e, f, Search("SERIES", f), Search("YEAR", f))

parse(raw) ==
    ParseStripped(raw, Search("EXTENSION", raw), StripExtension(raw))

(***************************************************************************)
(* The parser as a state machine: a filename is assembled from pieces and  *)
(* handed to parse.                                                        *)
(***************************************************************************)
ParserIdle ==
    /\ filename = <<>>
    /\ npieces = 0
    /\ parsed = FALSE
    /\ meta = MediaMeta(<<>>)

AppendPiece ==
    /\ ~parsed
    /\ npieces < MaxPieces
    /\ \E p \in Pieces : filename' = filename \o p
    /\ npieces' = npieces + 1
    /\ UNCHANGED <<parsed, meta, pickVars, clientVars, posterVars, procVars>>

Parse ==
    /\ ~parsed
    /\ meta' = parse(filename)
    /\ parsed' = TRUE
    /\ UNCHANGED <<filename, npieces, pickVars, clientVars, posterVars, procVars>>

ParserNext == AppendPiece \/ Parse

(***************************************************************************)
(* Catalog candidates (the items of the "results" list of a search         *)
(* response).  A string field is a character sequence, <<>> when the key   *)
(* is missing, null or "" (the code reads all three with `or ""`).  A      *)
(* number field is Missing, Null or Num(n).  popularity is in units,       *)
(* vote_average in hundredths.                                             *)
(***************************************************************************)
Missing == [kind |-> "missing", num |-> 0]
Null    == [kind |-> "null", num |-> 0]
Num(n)  == [kind |-> "num", num |-> n]

Item(id, title, name, release_date, first_air_date, popularity, vote_average, poster_path) ==
    [id |-> id, title |-> title, name |-> name,
     release_date |-> release_date, first_air_date |-> first_air_date,
     popularity |-> popularity, vote_average |-> vote_average,
     poster_path |-> poster_path, overview |-> <<"o">>]

\* item.get("title") or item.get("name") or ""
TitleOrName(item) == IF item.title # <<>> THEN item.title ELSE item.name

\* item.get("release_date") or item.get("first_air_date") or ""
ReleaseOf(item) ==
    IF item.release_date # <<>> THEN item.release_date ELSE item.first_air_date

\* item.get("popularity") or 0
PopularityOf(item) ==
    IF item.popularity.kind = "num" THEN item.popularity.num ELSE 0

\* needle in hay
Contains(hay, needle) ==
    \E i \in 0..(Len(hay) - Len(needle)) :
        SubSeq(hay, i + 1, i + Len(needle)) = needle

\* s.startswith(prefix)
StartsWith(s, prefix) ==
    Len(prefix) <= Len(s) /\ SubSeq(s, 1, Len(prefix)) = prefix

\* str(n) of an integer n >= 0
RECURSIVE StrOfInt(_)
StrOfInt(n) ==
    IF n < 10 THEN <<Digits[n + 1]>>
    ELSE StrOfInt(n \div 10) \o <<Digits[(n % 10) + 1]>>

(***************************************************************************)
(* TMDBClient._pick_best                                                   *)
(***************************************************************************)
\* scores are kept in thousandths, so that popularity / 1000 is an integer
ScoreScale == 1000

\* the inner function score of _pick_best
score(item, title_lc, year) ==
      (IF StrLower(TitleOrName(item)) = title_lc THEN 10 * ScoreScale
       ELSE IF \/ Contains(StrLower(TitleOrName(item)), title_lc)
               \/ Contains(title_lc, StrLower(TitleOrName(item)))
            THEN 5 * ScoreScale
       ELSE 0)
    + (IF /\ year # None
          /\ year[1] # 0
          /\ StartsWith(ReleaseOf(item), StrOfInt(year[1]))
       THEN 3 * ScoreScale ELSE 0)
    + PopularityOf(item)

\* max keeping the last of several maximal items
score_keeps_OrEqual(new, old) == new >= old

\* max(results, key=score) keeps a later item only when its key is greater
score_keeps(new, old) == new > old

\* max(results, key=score) over results[k..], best being the index kept so far
RECURSIVE MaxFrom(_, _, _, _, _)
MaxFrom(results, title_lc, year, k, best) ==
    IF k > Len(results) THEN best
    ELSE MaxFrom(results, title_lc, year, k + 1,
                 IF score_keeps(score(results[k], title_lc, year),
                                score(results[best], title_lc, year))
                 THEN k ELSE best)

\* index in results of the item _pick_best returns (results is not empty)
pick_best(results, title, year) ==
    MaxFrom(results, StrLower(title), year, 2, 1)

(***************************************************************************)
(* _pick_best as a state machine: a query is chosen, a result list is      *)
(* assembled from a catalog, and _pick_best is applied.                    *)
(***************************************************************************)
Leo  == <<"L","e","o">>
LEO  == <<"L","E","O">>
Leo2 == <<"L","e","o"," ","2">>
OtherTitle == <<"M","a","x">>
Date2023 == <<"2","0","2","3","-","1","0","-","1","9">>
Date2022 == <<"2","0","2","2","-","0","1","-","0","1">>

PickTitles == {Leo, Leo2, <<>>}
PickYears  == {None, Some(2023)}

\* movie-shaped candidates, and series-shaped ones (name, first_air_date)
PickCatalog ==
    {Item(1, t, <<>>, d, <<>>, pop, Num(0), <<>>) :
        t \in {Leo, LEO, Leo2, OtherTitle}, d \in {Date2023, Date2022, <<>>},
        pop \in {Null, Num(10), Num(6000)}}
    \cup
    {Item(1, <<>>, n, <<>>, d, Num(500), Num(0), <<>>) :
        n \in {Leo, <<>>}, d \in {Date2023, <<>>}}

PickIdle ==
    /\ pickQuery = [title |-> <<>>, year |-> None]
    /\ pickList = <<>>
    /\ picked = 0

PickInputs ==
    /\ pickQuery \in [title : PickTitles, year : PickYears]
    /\ pickList = <<>>
    /\ picked = 0

AddCandidate ==
    /\ picked = 0
    /\ Len(pickList) < MaxCandidates
    /\ \E item \in PickCatalog : pickList' = Append(pickList, item)
    /\ UNCHANGED <<pickQuery, picked, parserVars, clientVars, posterVars, procVars>>

PickBest ==
    /\ picked = 0
    /\ pickList # <<>>
    /\ picked' = pick_best(pickList, pickQuery.title, pickQuery.year)
    /\ UNCHANGED <<pickQuery, pickList, parserVars, clientVars, posterVars, procVars>>

PickNext == AddCandidate \/ PickBest

(***************************************************************************)
(* TMDBClient: the session, search, _enrich and _download_poster.          *)
(* A coroutine runs without interruption between two awaits that suspend   *)
(* it, so one action is the code between two such awaits: the request for  *)
(* the search response, the request for the artwork, the opening of the    *)
(* cache file, and each chunk of the transfer.                             *)
(***************************************************************************)
\* the coroutines that can run search; Sequential is the one that runs it
\* when calls do not overlap
Runs == {"r1", "r2"}
Sequential == {"r1"}

\* Config.TMDB_IMAGE_BASE
ImgBase == <<"i","m","g",":">>

\* os.path.join(Config.POSTER_OUTPUT_DIR, f"raw_{tmdb_id}.jpg")
Dest(tmdb_id) == <<"posters", "raw_", tmdb_id, ".jpg">>

\* release_date[:4]
Prefix4(str) == SubSeq(str, 1, IF Len(str) < 4 THEN Len(str) ELSE 4)

\* int(str) succeeds (the strings of the model have no sign, blank or "_")
IsIntLiteral(str) == str # <<>> /\ \A k \in 1..Len(str) : IsDigit(str[k])

\* round(v, 1) of a value in hundredths, in tenths (the values of the model
\* are exact binary fractions, for which round is round-half-even)
Round1(v) ==
    IF (v % 10) > 5 \/ ((v % 10) = 5 /\ ((v \div 10) % 2) = 1)
    THEN (v \div 10) + 1 ELSE v \div 10

\* the candidates a search response of the model is made of
Catalog ==
    { Item(1, Leo, <<>>, Date2023, <<>>, Num(10), Num(725), <<"/","a">>),
      Item(2, Leo2, <<>>, Date2023, <<>>, Num(500), Num(600), <<>>),
      \* null vote average and null popularity
      Item(1, Leo, <<>>, Date2022, <<>>, Null, Null, <<"/","a">>),
      \* a date with a non-numeric prefix
      Item(3, <<>>, Leo, <<>>, <<"T","B","A">>, Num(10), Missing, <<>>),
      \* no title, no date, null popularity
      Item(2, <<>>, <<>>, <<>>, <<>>, Null, Missing, <<"/","b">>) }

Responses == UNION {[1..n -> Catalog] : n \in 0..MaxResults}

Queries == { [title |-> Leo, year |-> Some(2023), media_type |-> "movie"] }

FileIds == {item.id : item \in Catalog}

NoItem == Item(0, <<>>, <<>>, <<>>, <<>>, Missing, Missing, <<>>)

\* the dict _enrich returns
Enrichment(tmdb_id, title, overview, release_year, poster_url, local, vote, media_type) ==
    [tmdb_id |-> tmdb_id, title |-> title, overview |-> overview,
     release_year |-> release_year, poster_url |-> poster_url,
     local_poster_path |-> local, vote_average |-> vote,
     media_type |-> media_type]

NoData == Enrichment(0, <<>>, <<>>, None, None, None, 0, "")

\* what search has returned: nothing yet, {} or the dict of _enrich
NoResult    == [kind |-> "none", data |-> NoData]
EmptyResult == [kind |-> "empty", data |-> NoData]
DictResult(d) == [kind |-> "dict", data |-> d]

\* lines 111-121 raise: int() of a non-numeric date prefix (line 116), or
\* round() of a null vote average (line 119)
enrich_raises(item) ==
    \/ ReleaseOf(item) # <<>> /\ ~IsIntLiteral(Prefix4(ReleaseOf(item)))
    \/ item.vote_average.kind = "null"

\* lines 111-121
enrich_dict(item, media_type, local) ==
    Enrichment(item.id,
               TitleOrName(item),
               item.overview,
               IF ReleaseOf(item) # <<>>
                   THEN Some(IntOf(Prefix4(ReleaseOf(item)))) ELSE None,
               IF item.poster_path # <<>> THEN Some(ImgBase \o item.poster_path) ELSE None,
               local,
               Round1(IF item.vote_average.kind = "num"
                      THEN item.vote_average.num ELSE 0),
               media_type)

\* the state of a coroutine that is not running search
IdleRun ==
    [pc |-> "idle", title |-> <<>>, year |-> None, media_type |-> "movie",
     sess |-> 0,            \* the local variable session, 0 outside its scope
     outcome |-> "none",    \* how the search request ended
     nresults |-> 0,        \* len(results)
     best |-> NoItem,       \* the item _pick_best returned
     existed |-> FALSE,     \* the cache file was there when _download_poster looked
     dl |-> "none",         \* _download_poster: "hit", "failed" or "done"
     local |-> None,        \* what _download_poster returned
     offset |-> 0,          \* chunks written to the cache file by the open transfer
     nsearch |-> 0,         \* search requests issued by this invocation
     nposter |-> 0,         \* artwork requests issued by this invocation
     result |-> NoResult]

\* lines 68-70 with the request issued a second time after a failure
ReturnEmpty_Retry(slot, outcome) ==
    IF slot.nsearch < 2 /\ outcome # "ok"
    THEN [slot EXCEPT !.nsearch = @ + 1]
    ELSE [slot EXCEPT !.pc = "returned", !.outcome = outcome, !.sess = 0,
                      !.result = EmptyResult]

\* lines 68-70 and 73-75: search returns {}
ReturnEmpty(slot, outcome) ==
    [slot EXCEPT !.pc = "returned", !.outcome = outcome, !.sess = 0,
                 !.result = EmptyResult]

\* lines 111-121 after _download_poster has returned local
Enriched(slot, local, dl) ==
    [slot EXCEPT !.pc = IF enrich_raises(slot.best) THEN "raised" ELSE "returned",
                 !.local = local,
                 !.dl = dl,
                 !.sess = 0,
                 !.offset = 0,
                 !.result = IF enrich_raises(slot.best) THEN NoResult
                            ELSE DictResult(enrich_dict(slot.best, slot.media_type, local))]

\* line 128 with the test of the file left out
os_path_exists_Never(fs, tmdb_id) == FALSE

\* line 128: os.path.exists(dest)
os_path_exists(fs, tmdb_id) == fs[tmdb_id].exists

\* line 107: the item references artwork
has_poster(item) == item.poster_path # <<>>

\* line 32 with the test left out: a session is created on every call
session_stale_Always == TRUE

\* _get_session, lines 31-37
session_stale == session = 0 \/ session \notin openSessions

get_session ==
    /\ session' = IF session_stale THEN created + 1 ELSE session
    /\ openSessions' = IF session_stale THEN openSessions \cup {created + 1}
                       ELSE openSessions
    /\ created' = IF session_stale THEN created + 1 ELSE created

ClientInit ==
    /\ session = 0
    /\ openSessions = {}
    /\ created = 0
    /\ files = [id \in FileIds |-> [exists |-> FALSE, chunks |-> {}]]
    /\ run = [r \in Runs |-> IdleRun]
    /\ calls = 0

\* search is called: lines 52-65 up to the request
StartSearch(r) ==
    /\ run[r].pc = "idle"
    /\ calls < MaxCalls
    /\ get_session
    /\ \E q \in Queries :
          run' = [run EXCEPT ![r] =
                    [IdleRun EXCEPT !.pc = "search_wait", !.title = q.title,
                                    !.year = q.year, !.media_type = q.media_type,
                                    !.sess = session', !.nsearch = 1]]
    /\ calls' = calls + 1
    /\ UNCHANGED <<files, parserVars, pickVars, posterVars, procVars>>

\* the search request fails, or the body is no JSON: lines 68-70
SearchFails(r) ==
    /\ run[r].pc = "search_wait"
    /\ \E outcome \in {"conn_error", "http_error", "bad_json"} :
          run' = [run EXCEPT ![r] = ReturnEmpty(run[r], outcome)]
    /\ UNCHANGED <<session, openSessions, created, files, calls, parserVars, pickVars, posterVars, procVars>>

\* the body is JSON but no object: data.get of line 72 raises
SearchNotObject(r) ==
    /\ run[r].pc = "search_wait"
    /\ run[r].sess \in openSessions
    /\ run' = [run EXCEPT ![r] = [run[r] EXCEPT !.pc = "raised", !.outcome = "not_object", !.sess = 0]]
    /\ UNCHANGED <<session, openSessions, created, files, calls, parserVars, pickVars, posterVars, procVars>>

\* the body is an object without candidates: lines 72-75
SearchNoResults(r) ==
    /\ run[r].pc = "search_wait"
    /\ run[r].sess \in openSessions
    /\ run' = [run EXCEPT ![r] = ReturnEmpty(run[r], "ok")]
    /\ UNCHANGED <<session, openSessions, created, files, calls, parserVars, pickVars, posterVars, procVars>>

\* lines 77-78 and _enrich with the item picked, up to the artwork request
\* of line 133 when there is one
Picked(r, slot) ==
    IF ~has_poster(slot.best)
    THEN /\ run' = [run EXCEPT ![r] = Enriched(slot, None, "none")]
         /\ UNCHANGED <<session, openSessions, created>>
    ELSE IF os_path_exists(files, slot.best.id)
    THEN /\ run' = [run EXCEPT ![r] =
                      Enriched([slot EXCEPT !.existed = files[slot.best.id].exists],
                               Some(Dest(slot.best.id)), "hit")]
         /\ UNCHANGED <<session, openSessions, created>>
    ELSE /\ get_session
         /\ run' = [run EXCEPT ![r] =
                      [slot EXCEPT !.existed = files[slot.best.id].exists,
                                   !.pc = "poster_wait", !.sess = session',
                                   !.nposter = 1]]

\* the body lists candidates: lines 72-78
SearchResults(r) ==
    /\ run[r].pc = "search_wait"
    /\ run[r].sess \in openSessions
    /\ \E results \in Responses :
          /\ results # <<>>
          /\ Picked(r, [run[r] EXCEPT
                          !.outcome = "ok",
                          !.nresults = Len(results),
                          !.best = results[pick_best(results, run[r].title, run[r].year)]])
    /\ UNCHANGED <<files, calls, parserVars, pickVars, posterVars, procVars>>

\* the artwork request fails: lines 133-134, 140-142
PosterFails(r) ==
    /\ run[r].pc = "poster_wait"
    /\ run' = [run EXCEPT ![r] = Enriched(run[r], None, "failed")]
    /\ UNCHANGED <<session, openSessions, created, files, calls, parserVars, pickVars, posterVars, procVars>>

\* the artwork response has arrived with a success status: lines 133-135
PosterResponds(r) ==
    /\ run[r].pc = "poster_wait"
    /\ run[r].sess \in openSessions
    /\ run' = [run EXCEPT ![r] = [run[r] EXCEPT !.pc = "poster_open"]]
    /\ UNCHANGED <<session, openSessions, created, files, calls, parserVars, pickVars, posterVars, procVars>>

\* aiofiles.open(dest, "wb") creates or truncates the file: line 135
PosterOpens(r) ==
    /\ run[r].pc = "poster_open"
    /\ files' = [files EXCEPT ![run[r].best.id] = [exists |-> TRUE, chunks |-> {}]]
    /\ run' = [run EXCEPT ![r] = [run[r] EXCEPT !.pc = "poster_write", !.offset = 0]]
    /\ UNCHANGED <<session, openSessions, created, calls, parserVars, pickVars, posterVars, procVars>>

\* aiofiles.open raises: lines 135, 140-142
PosterOpenFails(r) ==
    /\ run[r].pc = "poster_open"
    /\ run' = [run EXCEPT ![r] = Enriched(run[r], None, "failed")]
    /\ UNCHANGED <<session, openSessions, created, files, calls, parserVars, pickVars, posterVars, procVars>>

\* one chunk is read and written at this coroutine's offset; after the last
\* one the file is closed and _download_poster returns dest: lines 136-139
PosterWrites(r) ==
    /\ run[r].pc = "poster_write"
    /\ run[r].sess \in openSessions
    /\ files' = [files EXCEPT ![run[r].best.id] =
                   [exists |-> TRUE, chunks |-> @.chunks \cup {run[r].offset + 1}]]
    /\ run' = [run EXCEPT ![r] =
                 IF run[r].offset + 1 = NumChunks
                 THEN Enriched(run[r], Some(Dest(run[r].best.id)), "done")
                 ELSE [run[r] EXCEPT !.offset = @ + 1]]
    /\ UNCHANGED <<session, openSessions, created, calls, parserVars, pickVars, posterVars, procVars>>

\* reading or writing a chunk raises: lines 136-137, 140-142
PosterWriteFails(r) ==
    /\ run[r].pc = "poster_write"
    /\ run' = [run EXCEPT ![r] = Enriched(run[r], None, "failed")]
    /\ UNCHANGED <<session, openSessions, created, files, calls, parserVars, pickVars, posterVars, procVars>>

\* the caller has taken the result of search, or its exception
Finish(r) ==
    /\ run[r].pc \in {"returned", "raised"}
    /\ run' = [run EXCEPT ![r] = IdleRun]
    /\ UNCHANGED <<session, openSessions, created, files, calls, parserVars, pickVars, posterVars, procVars>>

\* TMDBClient.close, lines 39-41
Close ==
    /\ session # 0
    /\ session \in openSessions
    /\ created < MaxSessions
    /\ openSessions' = openSessions \ {session}
    /\ UNCHANGED <<session, created, files, run, calls, parserVars, pickVars, posterVars, procVars>>

SearchStep(r) ==
    \/ StartSearch(r)
    \/ SearchFails(r)
    \/ SearchNotObject(r)
    \/ SearchNoResults(r)
    \/ SearchResults(r)
    \/ PosterFails(r)
    \/ PosterResponds(r)
    \/ PosterOpens(r)
    \/ PosterOpenFails(r)
    \/ PosterWrites(r)
    \/ PosterWriteFails(r)
    \/ Finish(r)

\* search invoked again and again, one invocation at a time
Next == (\E r \in Sequential : SearchStep(r)) \/ Close

\* search invoked by coroutines that run concurrently
ConcNext == (\E r \in Runs : SearchStep(r)) \/ Close

ClientIdle == ClientInit

(***************************************************************************)
(* PosterGenerator.create_poster (src/modules/poster_generator.py).        *)
(* create_poster has no await that suspends it, so a call is one action.   *)
(* A text line is kept as the box the code computes for it (bottom_y and   *)
(* top_y) and the rows its glyphs cover.  Pillow draws a text at the       *)
(* anchor (x, top_y) and reports with textbbox((0, 0), text) the box of    *)
(* the glyphs relative to that anchor: the glyphs of a text drawn at       *)
(* (x, top_y) cover the rows top_y + bbox[1] to top_y + bbox[3].           *)
(***************************************************************************)
\* Config.POSTER_WIDTH and Config.POSTER_MIN_HEIGHT
TARGET_W == 1080
MIN_H == 1600

\* Config.POSTER_OUTPUT_DIR and Config.FALLBACK_POSTER
OUT_DIR == <<"p","o","s","t","e","r","s">>
FALLBACK_POSTER == <<"a","s","s","e","t","s","/","f","a","l","l","b","a","c","k",".","j","p","g">>

\* the separator of the text lines; the characters U+2022 and U+2605 are
\* written "bullet" and "star"
Bullet == <<" ", " ", "bullet", " ", " ">>

\* f"{n:02d}" of an integer n >= 0
Format02d(n) == IF n < 10 THEN <<"0">> \o StrOfInt(n) ELSE StrOfInt(n)

\* str(v) of a float given in tenths
StrOfTenths(v) == StrOfInt(v \div 10) \o <<".">> \o StrOfInt(v % 10)

\* str.replace(old, new) for a one-character old
RECURSIVE Replace(_, _, _)
Replace(str, old, new) ==
    IF str = <<>> THEN <<>>
    ELSE (IF str[1] = old THEN new ELSE <<str[1]>>) \o Replace(Tail(str), old, new)

\* line 219 with the second replace left out
safe_title_KeepsSlash(title) == Replace(title, " ", <<"_">>)

\* line 219
safe_title(title) == Replace(Replace(title, " ", <<"_">>), "/", <<"-">>)

\* lines 220-223
path_suffix(m) ==
    IF m.season # None
    THEN <<"_", "S">> \o Format02d(m.season[1]) \o <<"E">> \o Format02d(m.episode[1])
    ELSE <<>>

\* os.path.join(a, b)
os_path_join(a, b) ==
    IF b # <<>> /\ b[1] = "/" THEN b
    ELSE IF a = <<>> \/ a[Len(a)] = "/" THEN a \o b
    ELSE a \o <<"/">> \o b

\* _output_path, lines 218-224
output_path(m) ==
    os_path_join(OUT_DIR, <<"p","o","s","t","e","r","_">> \o safe_title(m.title) \o path_suffix(m) \o <<".","j","p","g">>)

\* line 65
local_raw(tmdb) == IF tmdb.kind = "dict" THEN tmdb.data.local_poster_path ELSE None

\* line 67: the artwork is used when the path is set and a file is there
uses_artwork(tmdb, raw) == local_raw(tmdb) # None /\ raw.kind # "missing"

\* Image.open(path).convert("RGBA") of line 87 raises
open_raises(raw) == raw.kind \in {"unreadable", "not_image"}

\* lines 89-91 and 95: the height of the canvas
canvas_height(tmdb, raw) ==
    IF uses_artwork(tmdb, raw)
    THEN Max({(raw.h * TARGET_W) \div raw.w, MIN_H})
    ELSE MIN_H

\* lines 147-148: tmdb.get("vote_average", "") and tmdb.get("release_year")
rating_of(tmdb) == IF tmdb.kind = "dict" THEN tmdb.data.vote_average ELSE 0
release_year_of(tmdb) == IF tmdb.kind = "dict" THEN tmdb.data.release_year ELSE None

\* line 148
line_year(m, tmdb) == IF m.year # None THEN m.year ELSE release_year_of(tmdb)

\* line 149: the dict of MediaMeta.to_dict has no key display_quality
line_quality(m) == m.quality

\* line 150: the parts that are not empty, in order
meta_parts(m, tmdb) ==
    (IF line_year(m, tmdb) # None THEN <<StrOfInt(line_year(m, tmdb)[1])>> ELSE <<>>)
    \o (IF line_quality(m) # <<>> THEN <<line_quality(m)>> ELSE <<>>)
    \o (IF rating_of(tmdb) # 0
        THEN <<(<<"star", " ">> \o StrOfTenths(rating_of(tmdb)))>> ELSE <<>>)

\* sep.join(parts)
RECURSIVE Join(_, _)
Join(sep, parts) ==
    IF parts = <<>> THEN <<>>
    ELSE IF Len(parts) = 1 THEN parts[1]
    ELSE parts[1] \o sep \o Join(sep, Tail(parts))

\* line 151
meta_line(m, tmdb) == Join(Bullet, meta_parts(m, tmdb))

\* line 161
draws_season(m) == m.media_type = "series" /\ m.season # None

\* line 162
se_text(m) ==
    <<"S","e","a","s","o","n"," ">> \o Format02d(m.season[1]) \o Bullet
    \o <<"E","p","i","s","o","d","e"," ">> \o Format02d(m.episode[1])

\* what textbbox can report for a text: the offset bbox[1] of the glyphs
\* below the anchor, and their height bbox[3] - bbox[1]
TextMetrics ==
    { [top |-> 0, height |-> 26], [top |-> 9, height |-> 26],
      [top |-> 62, height |-> 18] }
NoMetrics == [top |-> 0, height |-> 0]
MetricsOf(text) == IF text = <<>> THEN {NoMetrics} ELSE TextMetrics

\* _draw_text_centered, lines 174-193
draw_text_centered(name, text, bottom_y, m) ==
    [name |-> name, text |-> text, bottom_y |-> bottom_y,
     top_y |-> bottom_y - m.height,
     ink_top |-> bottom_y - m.height + m.top,
     ink_bottom |-> bottom_y - m.height + m.top + m.height]

\* line 193
next_cursor(box) == box.top_y - 8

\* lines 153-158
meta_box(m, tmdb, h, mm) == draw_text_centered("meta", meta_line(m, tmdb), h - 60, mm)
cursor_after_meta(m, tmdb, h, mm) ==
    IF meta_line(m, tmdb) # <<>>
    THEN next_cursor(meta_box(m, tmdb, h, mm)) - 14
    ELSE h - 60

\* lines 161-166
se_box(m, y_cursor, ms) == draw_text_centered("season", se_text(m), y_cursor, ms)
cursor_after_se(m, y_cursor, ms) ==
    IF draws_season(m) THEN next_cursor(se_box(m, y_cursor, ms)) - 20 ELSE y_cursor

\* lines 169-170
title_box(m, y_cursor, mt) == draw_text_centered("title", m.title, y_cursor, mt)

\* _draw_text_overlay, lines 136-172: the lines drawn, in the order drawn
draw_text_overlay(m, tmdb, h, mm, ms, mt) ==
    (IF meta_line(m, tmdb) # <<>> THEN <<meta_box(m, tmdb, h, mm)>> ELSE <<>>)
    \o (IF draws_season(m)
        THEN <<se_box(m, cursor_after_meta(m, tmdb, h, mm), ms)>> ELSE <<>>)
    \o <<title_box(m, cursor_after_se(m, cursor_after_meta(m, tmdb, h, mm), ms), mt)>>

\* what create_poster has returned: nothing yet, a path, or an exception
NoPoster == [kind |-> "none", path |-> <<>>, height |-> 0, lines |-> <<>>]

\* the result of create_poster together with the file that was at the output
\* path when it was called
Called(result, before) ==
    [kind |-> result.kind, path |-> result.path, height |-> result.height,
     lines |-> result.lines, before |-> before]

\* lines 80-82 replaced by a handler that raises again
except_Exception_Reraise(failed, path, h, lines) ==
    IF failed THEN [kind |-> "raised", path |-> <<>>, height |-> 0, lines |-> <<>>]
    ELSE [kind |-> "path", path |-> path, height |-> h, lines |-> lines]

\* lines 66-82: the try and its handler
except_Exception(failed, path, h, lines) ==
    IF failed THEN [kind |-> "fallback", path |-> FALLBACK_POSTER, height |-> 0, lines |-> <<>>]
    ELSE [kind |-> "path", path |-> path, height |-> h, lines |-> lines]

\* line 76: the file at the output path after save
saved_file(before, save) ==
    CASE save = "ok" -> "written"
      [] save = "write_error" -> "partial"
      [] OTHER -> before

\* the metadata records create_poster is called with
PosterTitles == {Leo, Leo2, <<"A", "/", "B">>, <<>>}
PosterMetas ==
    { [MediaMeta(<<>>) EXCEPT !.title = t, !.year = y, !.season = se[1],
                              !.episode = se[2], !.quality = q, !.rip_type = rt,
                              !.media_type = IF se[1] = None THEN "movie" ELSE "series"] :
        t \in PosterTitles, y \in {None, Some(2023)},
        se \in {<<None, None>>, <<Some(1), Some(2)>>, <<Some(12), Some(3)>>},
        q \in {<<>>, <<"4", "K">>},
        rt \in {<<>>, <<"W", "E", "B", "R", "i", "p">>} }

\* the enrichments create_poster is called with: None, {} and the dicts of
\* _enrich
PosterEnrichments ==
    {[kind |-> "null", data |-> NoData], EmptyResult}
    \cup UNION { { DictResult(enrich_dict(item, "movie", local)) :
                      local \in (IF has_poster(item)
                                 THEN {None, Some(Dest(item.id))} ELSE {None}) } :
                    item \in {c \in Catalog : ~enrich_raises(c)} }

\* the file at the local artwork path
RawFiles ==
    { [kind |-> "missing", w |-> 1, h |-> 1],
      [kind |-> "unreadable", w |-> 1, h |-> 1],
      [kind |-> "not_image", w |-> 1, h |-> 1],
      [kind |-> "image", w |-> 1080, h |-> 1500],
      [kind |-> "image", w |-> 500, h |-> 1000] }

PosterIdle ==
    /\ pmeta = MediaMeta(<<>>)
    /\ ptmdb = EmptyResult
    /\ praw = [kind |-> "missing", w |-> 1, h |-> 1]
    /\ pfile = "none"
    /\ poster = NoPoster

PosterInputs ==
    /\ pmeta \in PosterMetas
    /\ ptmdb \in PosterEnrichments
    /\ praw \in RawFiles
    /\ pfile \in {"none", "prior"}
    /\ poster = NoPoster

\* create_poster, lines 60-82
CreatePoster ==
    /\ poster.kind = "none"
    /\ \E mm \in MetricsOf(meta_line(pmeta, ptmdb)),
          ms \in (IF draws_season(pmeta) THEN TextMetrics ELSE {NoMetrics}),
          mt \in MetricsOf(pmeta.title),
          save \in {"ok", "open_error", "write_error"} :
          IF uses_artwork(ptmdb, praw) /\ open_raises(praw)
          THEN /\ poster' = Called(except_Exception(TRUE, <<>>, 0, <<>>), pfile)
               /\ pfile' = pfile
          ELSE /\ poster' = Called(except_Exception(
                                      save # "ok", output_path(pmeta),
                                      canvas_height(ptmdb, praw),
                                      draw_text_overlay(pmeta, ptmdb,
                                                        canvas_height(ptmdb, praw),
                                                        mm, ms, mt)),
                                  pfile)
               /\ pfile' = saved_file(pfile, save)
    /\ UNCHANGED <<pmeta, ptmdb, praw, parserVars, pickVars, clientVars, procVars>>

PosterNext == CreatePoster

(***************************************************************************)
(* process_file (src/main.py) with the cache store (src/modules/database.py)*)
(* Runs follow one another.  A step is the code up to the next await: the  *)
(* cache lookup, the search, the render together with the cache write that *)
(* follows it, the photo send and the forward.  The search is taken with   *)
(* the results TMDBClient.search can end with.                             *)
(***************************************************************************)
\* the files process_file is called for: two episodes of a series and a movie
ProcFilenames ==
    { <<"F","2",".","S","0","2","E","0","3",".","m","k","v">>,
      <<"F","2",".","S","0","2","E","0","2",".","m","k","v">>,
      <<"F","2",".","2","0","2","3",".","m","k","v">> }

\* the key of get_cached_poster and cache_poster, lines 45 and 58
KeyOf(m) == <<StrLower(m.title), m.year, m.media_type>>

ProcMetas == {parse(f) : f \in ProcFilenames}
ProcKeys == {KeyOf(m) : m \in ProcMetas}
ProcPaths == {output_path(m) : m \in ProcMetas} \cup {FALLBACK_POSTER}

\* a document of poster_cache, lines 57-66; the result of find_one when
\* there is none
Entry(poster_path, tmdb_data) ==
    [present |-> TRUE, poster_path |-> poster_path, tmdb_data |-> tmdb_data]
NoEntry == [present |-> FALSE, poster_path |-> <<>>, tmdb_data |-> EmptyResult]

\* a poster file: whether it is there, and the season and episode it shows
PosterFile(season, episode) == [exists |-> TRUE, season |-> season, episode |-> episode]
NoFile == [exists |-> FALSE, season |-> None, episode |-> None]

\* os.path.exists(path), line 85
poster_exists(dir, path) == path \in DOMAIN dir /\ dir[path].exists

\* line 85 with the test of the file left out
cache_hit_IgnoresFile(entry, there) == entry.present /\ entry.poster_path # <<>>

\* line 85
cache_hit(entry, there) == entry.present /\ entry.poster_path # <<>> /\ there

\* how TMDBClient.search can end for a media type: by an exception, with {}
\* after a failed request, with {} for an empty result list, or with the
\* dict of _enrich, whose local path is None when the item has no artwork or
\* the download failed
SearchEnd(kind, failed, result) == [kind |-> kind, failed |-> failed, result |-> result]
SearchEnds(media_type) ==
    { SearchEnd("raised", FALSE, NoResult),
      SearchEnd("returned", TRUE, EmptyResult),
      SearchEnd("returned", FALSE, EmptyResult) }
    \cup UNION { { SearchEnd("returned", has_poster(item) /\ local = None,
                             DictResult(enrich_dict(item, media_type, local))) :
                      local \in (IF has_poster(item)
                                 THEN {None, Some(Dest(item.id))} ELSE {None}) } :
                    item \in {c \in Catalog : ~enrich_raises(c)} }

\* no run of process_file is in progress
IdleProc ==
    [pc |-> "idle", filename |-> <<>>, meta |-> MediaMeta(<<>>),
     entry |-> NoEntry,       \* what get_cached_poster returned
     there |-> FALSE,         \* the poster file of the entry was on disk at line 85
     tmdb_data |-> NoResult,
     poster_path |-> <<>>,
     put_key |-> <<>>,        \* the key of the cache_poster call
     sent |-> NoFile,         \* the file sent as the photo
     trace |-> <<>>]          \* the calls made so far, in order

ProcIdle ==
    /\ cache = [k \in ProcKeys |-> NoEntry]
    /\ posterDir = [path \in ProcPaths |-> NoFile]
    /\ proc = IdleProc
    /\ degraded = {}
    /\ nruns = 0

\* the state at start-up: no cache entry and no poster; the fallback asset may
\* be there or not
ProcInit ==
    /\ cache = [k \in ProcKeys |-> NoEntry]
    /\ \E asset \in {NoFile, PosterFile(None, None)} :
          posterDir = [path \in ProcPaths |->
                         IF path = FALLBACK_POSTER THEN asset ELSE NoFile]
    /\ proc = IdleProc
    /\ degraded = {}
    /\ nruns = 0

\* lines 77-84: parse, and the cache lookup is issued
ProcStart ==
    /\ proc.pc = "idle"
    /\ nruns < MaxRuns
    /\ \E f \in ProcFilenames :
          proc' = [IdleProc EXCEPT !.pc = "lookup", !.filename = f, !.meta = parse(f)]
    /\ nruns' = nruns + 1
    /\ UNCHANGED <<cache, posterDir, degraded, parserVars, pickVars, clientVars, posterVars>>

\* lines 84-90: the lookup returns, and line 85 decides
Looked(slot, entry, there) ==
    IF cache_hit(entry, there)
    THEN [slot EXCEPT !.pc = "send", !.entry = entry, !.there = there,
                      !.poster_path = entry.poster_path,
                      !.tmdb_data = entry.tmdb_data,
                      !.trace = Append(@, "get")]
    ELSE [slot EXCEPT !.pc = "search", !.entry = entry, !.there = there,
                      !.trace = Append(@, "get")]

ProcLookup ==
    /\ proc.pc = "lookup"
    /\ proc' = Looked(proc, cache[KeyOf(proc.meta)],
                      poster_exists(posterDir, cache[KeyOf(proc.meta)].poster_path))
    /\ UNCHANGED <<cache, posterDir, degraded, nruns, parserVars, pickVars, clientVars, posterVars>>

\* line 91: tmdb.search returns or raises
ProcSearch ==
    /\ proc.pc = "search"
    /\ \E e \in SearchEnds(proc.meta.media_type) :
          /\ proc' = [proc EXCEPT !.pc = IF e.kind = "raised" THEN "raised" ELSE "render",
                                  !.tmdb_data = e.result,
                                  !.trace = Append(@, "search")]
          /\ degraded' = CASE e.failed -> degraded \cup {KeyOf(proc.meta)}
                            [] e.kind = "raised" -> degraded
                            [] OTHER -> degraded \ {KeyOf(proc.meta)}
    /\ UNCHANGED <<cache, posterDir, nruns, parserVars, pickVars, clientVars, posterVars>>

\* line 93: create_poster writes the poster of the file and returns its path,
\* or returns the fallback asset; line 94 then issues the cache write
ProcRender ==
    /\ proc.pc = "render"
    /\ \E failed \in BOOLEAN :
          /\ proc' = [proc EXCEPT
                        !.pc = "put",
                        !.poster_path =
                            except_Exception(failed, output_path(proc.meta), 0, <<>>).path,
                        !.trace = Append(@, "render")]
          /\ posterDir' = IF failed THEN posterDir
                          ELSE [posterDir EXCEPT ![output_path(proc.meta)] =
                                   PosterFile(proc.meta.season, proc.meta.episode)]
    /\ UNCHANGED <<cache, degraded, nruns, parserVars, pickVars, clientVars, posterVars>>

\* cache_poster, lines 57-67: the upsert
ProcPut ==
    /\ proc.pc = "put"
    /\ cache' = [cache EXCEPT ![KeyOf(proc.meta)] = Entry(proc.poster_path, proc.tmdb_data)]
    /\ proc' = [proc EXCEPT !.pc = "send", !.put_key = Some(KeyOf(proc.meta)),
                            !.trace = Append(@, "put")]
    /\ UNCHANGED <<posterDir, degraded, nruns, parserVars, pickVars, clientVars, posterVars>>

\* lines 102-107: the photo at poster_path is sent
ProcSend ==
    /\ proc.pc = "send"
    /\ poster_exists(posterDir, proc.poster_path)
    /\ proc' = [proc EXCEPT !.pc = "forward", !.sent = posterDir[proc.poster_path],
                            !.trace = Append(@, "send")]
    /\ UNCHANGED <<cache, posterDir, degraded, nruns, parserVars, pickVars, clientVars, posterVars>>

\* lines 102-107: there is no file at poster_path, send_photo raises
ProcSendFails ==
    /\ proc.pc = "send"
    /\ ~poster_exists(posterDir, proc.poster_path)
    /\ proc' = [proc EXCEPT !.pc = "raised"]
    /\ UNCHANGED <<cache, posterDir, degraded, nruns, parserVars, pickVars, clientVars, posterVars>>

\* lines 108-113
ProcForward ==
    /\ proc.pc = "forward"
    /\ proc' = [proc EXCEPT !.pc = "done", !.trace = Append(@, "forward")]
    /\ UNCHANGED <<cache, posterDir, degraded, nruns, parserVars, pickVars, clientVars, posterVars>>

\* process_file has returned or raised
ProcEnd ==
    /\ proc.pc \in {"done", "raised"}
    /\ proc' = IdleProc
    /\ UNCHANGED <<cache, posterDir, degraded, nruns, parserVars, pickVars, clientVars, posterVars>>

\* between two runs a poster file is removed from the output directory
PosterLost ==
    /\ proc.pc = "idle"
    /\ \E path \in ProcPaths \ {FALLBACK_POSTER} :
          /\ posterDir[path].exists
          /\ posterDir' = [posterDir EXCEPT ![path] = NoFile]
    /\ UNCHANGED <<cache, proc, degraded, nruns, parserVars, pickVars, clientVars, posterVars>>

ProcNext ==
    \/ ProcStart
    \/ ProcLookup
    \/ ProcSearch
    \/ ProcRender
    \/ ProcPut
    \/ ProcSend
    \/ ProcSendFails
    \/ ProcForward
    \/ ProcEnd
    \/ PosterLost

(***************************************************************************)
(* Specifications                                                          *)
(***************************************************************************)
ParserInit == ParserIdle /\ PickIdle /\ ClientIdle /\ PosterIdle /\ ProcIdle

PickInit == PickInputs /\ ParserIdle /\ ClientIdle /\ PosterIdle /\ ProcIdle

Init == ClientInit /\ ParserIdle /\ PickIdle /\ PosterIdle /\ ProcIdle

PosterInit == PosterInputs /\ ParserIdle /\ PickIdle /\ ClientIdle /\ ProcIdle

SpecParser == ParserInit /\ [][ParserNext]_vars

SpecPick == PickInit /\ [][PickNext]_vars

Spec == Init /\ [][Next]_vars

SpecConc == Init /\ [][ConcNext]_vars

SpecPoster == PosterInit /\ [][PosterNext]_vars

ProcessInit == ProcInit /\ ParserIdle /\ PickIdle /\ ClientIdle /\ PosterIdle

SpecProcess == ProcessInit /\ [][ProcNext]_vars

(***************************************************************************)
(* Properties of FilenameParser.parse                                      *)
(***************************************************************************)
\* a marker S<a digits>E<b digits> starts at position i of s
MarkerAt(s, i, a, b) ==
    /\ i >= 1 /\ i + a + 1 + b <= Len(s)
    /\ s[i] \in {"S", "s"}
    /\ \A k \in 1..a : IsDigit(s[i + k])
    /\ s[i + a + 1] \in {"E", "e"}
    /\ \A k \in 1..b : IsDigit(s[i + a + 1 + k])

HasMarker(s) == \E i \in 1..Len(s), a \in 1..2, b \in 1..2 : MarkerAt(s, i, a, b)

\* the first marker of s, its episode digits taken as far as they go
FirstMarker(s) ==
    LET i == Min({j \in 1..Len(s) : \E a \in 1..2, b \in 1..2 : MarkerAt(s, j, a, b)})
        a == CHOOSE x \in 1..2 : \E b \in 1..2 : MarkerAt(s, i, x, b)
        b == Max({y \in 1..2 : MarkerAt(s, i, a, y)})
    IN  [season  |-> IntOf(SubSeq(s, i + 1, i + a)),
         episode |-> IntOf(SubSeq(s, i + a + 2, i + a + 1 + b))]

\* C1: every filename that contains an S<1-2 digits>E<1-2 digits> marker is
\* parsed as a series whose season and episode are the integers of the first
\* such marker, whatever surrounds the marker.
C1_SeriesMarker ==
    (parsed /\ HasMarker(filename)) =>
        /\ meta.media_type = "series"
        /\ meta.season = Some(FirstMarker(filename).season)
        /\ meta.episode = Some(FirstMarker(filename).episode)

\* a filename with a marker between a title and tags has been parsed
C1_Witness ==
    /\ parsed
    /\ HasMarker(filename)
    /\ meta.season = Some(2) /\ meta.episode = Some(3)
    /\ meta.title = <<"S">>
    /\ meta.quality = <<"4","K">>

IsSeparator(c) == c \in {".", "_", "-", " "}

\* a year 2000..2029 stands at position i of s between separators or the
\* ends of s
BareYearAt(s, i) ==
    /\ i >= 1 /\ i + 3 <= Len(s)
    /\ s[i] = "2" /\ s[i + 1] = "0" /\ s[i + 2] \in {"0", "1", "2"}
    /\ IsDigit(s[i + 3])
    /\ (i = 1 \/ IsSeparator(s[i - 1]))
    /\ (i + 3 = Len(s) \/ IsSeparator(s[i + 4]))

HasBareYear(s) == \E i \in 1..Len(s) : BareYearAt(s, i)

FirstBareYear(s) ==
    LET i == Min({j \in 1..Len(s) : BareYearAt(s, j)})
    IN  IntOf(SubSeq(s, i, i + 3))

HasYearSubstring(s) ==
    \E i \in 1..Len(s) :
        /\ i + 3 <= Len(s)
        /\ s[i] = "2" /\ s[i + 1] = "0" /\ s[i + 2] \in {"0", "1", "2"}
        /\ IsDigit(s[i + 3])

\* C2: every filename with a bare year 2000..2029 and no season/episode
\* marker is parsed as a movie of that year, and its title contains no
\* four-digit year, whichever separator (dot, underscore, hyphen, space)
\* delimits the year.
C2_BareYear ==
    (parsed /\ HasBareYear(StripExtension(filename)) /\ ~HasMarker(filename)) =>
        /\ meta.media_type = "movie"
        /\ meta.year = Some(FirstBareYear(StripExtension(filename)))
        /\ ~HasYearSubstring(meta.title)

\* C3: the title returned by parse is never empty: when the clean-up leaves
\* nothing, the title is the trimmed raw name.
C3_TitleNonEmpty ==
    (parsed /\ JoinSplit(filename) # <<>>) => meta.title # <<>>

\* a year 2000..2029 stands in s between dots, hyphens, spaces or the ends
HasDelimitedYear(s) ==
    \E i \in 1..Len(s) :
        /\ i + 3 <= Len(s)
        /\ s[i] = "2" /\ s[i + 1] = "0" /\ s[i + 2] \in {"0", "1", "2"}
        /\ IsDigit(s[i + 3])
        /\ (i = 1 \/ s[i - 1] \in {".", "-", " "})
        /\ (i + 3 = Len(s) \/ s[i + 4] \in {".", "-", " "})

\* C4: season and episode are both set or both null, media_type is "series"
\* exactly when they are set, and a year is null or in 2000..2029; a year is
\* kept next to a series marker.
C4_RecordInvariant ==
    parsed =>
        /\ (meta.season = None) <=> (meta.episode = None)
        /\ meta.media_type \in {"movie", "series"}
        /\ (meta.media_type = "series") <=> (meta.season # None)
        /\ meta.year # None => (meta.year[1] >= 2000 /\ meta.year[1] <= 2029)
        /\ (HasMarker(filename) /\ HasDelimitedYear(filename))
             => (meta.year # None /\ meta.season # None)

\* a series record that also carries a year has been returned
C4_Witness ==
    /\ parsed
    /\ meta.media_type = "series"
    /\ meta.season = Some(2) /\ meta.episode = Some(3)
    /\ meta.year = Some(2023)

(***************************************************************************)
(* Properties of TMDBClient._pick_best                                     *)
(***************************************************************************)
\* the two titles are equal but for the case of their letters
SameTitle(a, b) ==
    Len(a) = Len(b) /\ \A k \in 1..Len(a) : Lower(a[k]) = Lower(b[k])

\* one title occurs in the other, ignoring case
OneContainsOther(a, b) ==
    \/ \E i \in 0..(Len(a) - Len(b)) :
          \A k \in 1..Len(b) : Lower(a[i + k]) = Lower(b[k])
    \/ \E i \in 0..(Len(b) - Len(a)) :
          \A k \in 1..Len(a) : Lower(b[i + k]) = Lower(a[k])

\* a year is supplied and the candidate's date string begins with it
YearMatches(item, year) ==
    /\ year # None
    /\ Len(ReleaseOf(item)) >= 4
    /\ \A k \in 1..4 : IsDigit(ReleaseOf(item)[k])
    /\ IntOf(SubSeq(ReleaseOf(item), 1, 4)) = year[1]

\* the score the matcher is specified to give, in thousandths
ClaimedScore(item, query) ==
      (IF SameTitle(TitleOrName(item), query.title) THEN 10000
       ELSE IF OneContainsOther(TitleOrName(item), query.title) THEN 5000
       ELSE 0)
    + (IF YearMatches(item, query.year) THEN 3000 ELSE 0)
    + (IF item.popularity.kind = "num" THEN item.popularity.num ELSE 0)

\* C6: _pick_best returns a candidate of maximum score (10 for an equal
\* title, else 5 for containment, plus 3 for the year, plus popularity/1000),
\* and among candidates of equal maximum score the earliest of the list.
C6_StableArgMax ==
    picked # 0 =>
        /\ picked \in 1..Len(pickList)
        /\ \A k \in 1..Len(pickList) :
              ClaimedScore(pickList[k], pickQuery) <= ClaimedScore(pickList[picked], pickQuery)
        /\ \A k \in 1..(picked - 1) :
              ClaimedScore(pickList[k], pickQuery) < ClaimedScore(pickList[picked], pickQuery)

\* two different candidates of equal maximum score, the first returned
C6_Witness ==
    /\ picked = 1
    /\ Len(pickList) = 2
    /\ pickList[1] # pickList[2]
    /\ ClaimedScore(pickList[1], pickQuery) = ClaimedScore(pickList[2], pickQuery)
    /\ ClaimedScore(pickList[1], pickQuery) >= 13000

\* C7: a candidate whose title equals the query is preferred to one whose
\* title does not, when both have the same year-match outcome, whatever the
\* two popularity values are.
C7_ExactDominates ==
    picked # 0 =>
        \A a, b \in 1..Len(pickList) :
            ( /\ TitleOrName(pickList[a]) # <<>>
              /\ SameTitle(TitleOrName(pickList[a]), pickQuery.title)
              /\ ~SameTitle(TitleOrName(pickList[b]), pickQuery.title)
              /\ YearMatches(pickList[a], pickQuery.year)
                   = YearMatches(pickList[b], pickQuery.year) )
            => picked # b

(***************************************************************************)
(* Properties of TMDBClient.search                                         *)
(***************************************************************************)
\* an invocation of search has ended, by a return or by an exception
Ended(r) == run[r].pc \in {"returned", "raised"}

\* C5: search never raises to its caller: whatever the outcome of the
\* catalog request and whatever the shape of the candidates, it returns an
\* enrichment record or the empty no-match marker.
C5_NeverRaises ==
    \A r \in Runs :
        Ended(r) => /\ run[r].pc = "returned"
                    /\ run[r].result.kind \in {"empty", "dict"}

\* C8: when the catalog request succeeds, search returns the no-match marker
\* if and only if the result list is empty, and then issues no artwork
\* request; for a non-empty list it returns an enrichment whose catalog id and
\* title are those of a candidate of the list.
C8_EmptyIffNoResults ==
    \A r \in Runs :
        (Ended(r) /\ run[r].outcome = "ok") =>
            /\ run[r].pc = "returned"
            /\ (run[r].result.kind = "empty") <=> (run[r].nresults = 0)
            /\ run[r].nresults = 0 => run[r].nposter = 0
            /\ run[r].nresults > 0 =>
                  /\ run[r].result.kind = "dict"
                  /\ run[r].result.data.tmdb_id = run[r].best.id
                  /\ run[r].result.data.title = TitleOrName(run[r].best)

\* C9: when the winning candidate references artwork and a file exists at
\* the cache path of its catalog id, _download_poster returns that path,
\* issues no request and leaves every file as it is, whatever the file holds.
C9_CacheHit ==
    [][\A r \in Runs :
          ( /\ run[r].pc = "search_wait"
            /\ run'[r].pc # "search_wait"
            /\ run'[r].existed )
          => /\ files' = files
             /\ run'[r].nposter = 0
             /\ run'[r].local = Some(Dest(run'[r].best.id))]_vars

\* a cache hit on a file an interrupted transfer has left incomplete
C9_Witness ==
    \E r \in Runs :
        /\ run[r].dl = "hit"
        /\ run[r].existed
        /\ has_poster(run[r].best)
        /\ files[run[r].best.id].exists
        /\ files[run[r].best.id].chunks # 1..NumChunks

\* C10: when the artwork fetch fails, search still returns the enrichment
\* built from the winning candidate, with the local artwork path unset and
\* every other field as for a successful fetch.
C10_FetchFailureNonFatal ==
    \A r \in Runs :
        (Ended(r) /\ run[r].dl = "failed") =>
            /\ run[r].pc = "returned"
            /\ run[r].result.kind = "dict"
            /\ run[r].result.data.local_poster_path = None
            /\ run[r].result.data.tmdb_id = run[r].best.id
            /\ run[r].result.data.title = TitleOrName(run[r].best)
            /\ run[r].result.data.poster_url = Some(ImgBase \o run[r].best.poster_path)
            /\ run[r].result.data.media_type = run[r].media_type

(***************************************************************************)
(* Properties of PosterGenerator.create_poster                             *)
(***************************************************************************)
\* C11: create_poster never propagates an exception: whatever the record,
\* the enrichment and the file at the local artwork path, it returns the
\* output path of a poster it has written or the fallback asset path.
C11_NeverPropagates ==
    poster.kind # "none" =>
        \/ /\ poster.kind = "path"
           /\ poster.path = output_path(pmeta)
           /\ pfile = "written"
        \/ /\ poster.kind = "fallback"
           /\ poster.path = FALLBACK_POSTER

\* the local artwork path leads to a file that is no image
C11_Witness ==
    /\ poster.kind = "fallback"
    /\ local_raw(ptmdb) # None
    /\ praw.kind = "not_image"

\* n as two decimal digits, for n below 100
TwoDigits(n) == <<Digits[(n \div 10) + 1], Digits[(n % 10) + 1]>>

\* the season/episode suffix the output path is said to have
ClaimedSuffix(m) ==
    IF m.season # None
    THEN <<"_", "S">> \o TwoDigits(m.season[1]) \o <<"E">> \o TwoDigits(m.episode[1])
    ELSE <<>>

PathHead == OUT_DIR \o <<"/">> \o <<"p","o","s","t","e","r","_">>
PathExt == <<".","j","p","g">>

\* the part of a path after <output dir>/poster_
PathRest(path) == SubSeq(path, Len(PathHead) + 1, Len(path))

\* C12: the output path is <output dir>/poster_<sanitized title>.jpg with
\* _S<season:02d>E<episode:02d> before .jpg exactly when a season is present;
\* the sanitized title has no space and no path separator and is the title
\* elsewhere, so the file lies directly inside the output directory; a prior
\* file at that path is overwritten.
C12_OutputPath ==
    poster.kind = "path" =>
        /\ StartsWith(poster.path, PathHead)
        /\ Len(PathRest(poster.path))
              = Len(pmeta.title) + Len(ClaimedSuffix(pmeta)) + Len(PathExt)
        /\ SubSeq(PathRest(poster.path), Len(pmeta.title) + 1,
                  Len(PathRest(poster.path)))
              = ClaimedSuffix(pmeta) \o PathExt
        /\ \A k \in 1..Len(pmeta.title) :
              /\ PathRest(poster.path)[k] \notin {" ", "/"}
              /\ pmeta.title[k] \notin {" ", "/"}
                    => PathRest(poster.path)[k] = pmeta.title[k]
        /\ \A k \in 1..Len(PathRest(poster.path)) : PathRest(poster.path)[k] # "/"
        /\ pfile = "written"

\* a series record whose title has a path separator, written over a prior
\* file
C12_Witness ==
    /\ poster.kind = "path"
    /\ pmeta.season = Some(12)
    /\ \E k \in 1..Len(pmeta.title) : pmeta.title[k] = "/"
    /\ poster.before = "prior"
    /\ pfile = "written"

(***************************************************************************)
(* Properties of the requests and of the session of TMDBClient             *)
(***************************************************************************)
\* C13: one invocation of search issues at most one search request and at
\* most one artwork request; after a failed search request it returns the
\* no-match marker with no further request, and after a failed artwork
\* request it ends with no further request.
C13_NoRetry ==
    \A r \in Runs :
        /\ run[r].nsearch <= 1
        /\ run[r].nposter <= 1
        /\ run[r].outcome \in {"conn_error", "http_error", "bad_json"} =>
              /\ run[r].pc = "returned"
              /\ run[r].result.kind = "empty"
              /\ run[r].nsearch = 1
              /\ run[r].nposter = 0
        /\ run[r].dl = "failed" =>
              /\ Ended(r)
              /\ run[r].nsearch = 1
              /\ run[r].nposter = 1

\* an invocation that has ended after its artwork request failed, in a
\* client whose earlier invocation ended after its search request failed
C13_Witness ==
    \E r \in Runs :
        /\ Ended(r)
        /\ run[r].dl = "failed"
        /\ run[r].nposter = 1
        /\ calls = 2

\* a coroutine has just been handed a session by _get_session
GotSession(r) ==
    /\ run'[r].pc \in {"search_wait", "poster_wait"}
    /\ run'[r].pc # run[r].pc

\* C14: no session exists after construction; _get_session returns a session
\* that is open when it is returned, creates one only when there is none or
\* the current one is closed, and returns the current one otherwise; the
\* client never has two open sessions.
C14_OneOpenSession ==
    /\ (calls = 0 /\ created = 0) => session = 0
    /\ [][ /\ Cardinality(openSessions') <= 1
           /\ \A r \in Runs :
                 GotSession(r) =>
                     /\ run'[r].sess = session'
                     /\ session' \in openSessions'
                     /\ (session # 0 /\ session \in openSessions) =>
                            (session' = session /\ created' = created)
                     /\ (session = 0 \/ session \notin openSessions) =>
                            created' = created + 1
           /\ created' # created => \E r \in Runs : GotSession(r) ]_vars

\* a session created after close, while another coroutine still waits for a
\* response on the closed one
C14_Witness ==
    /\ created = 2
    /\ session = 2
    /\ openSessions = {2}
    /\ \E r \in Runs : run[r].pc \in {"search_wait", "poster_wait"} /\ run[r].sess = 1

(***************************************************************************)
(* Properties of the text overlay                                          *)
(***************************************************************************)
\* the lines of the poster with a given name
LinesNamed(name) == {k \in 1..Len(poster.lines) : poster.lines[k].name = name}

\* C15: the text lines are stacked bottom-up without vertical overlap: the
\* metadata line has its bottom at the canvas height minus 60, the
\* Season/Episode line is drawn exactly for a series with a season and lies
\* entirely above the top of the metadata line, the title lies entirely above
\* every other line, and the bottom of each line is derived from the top of
\* the line drawn before it.
C15_LinesStacked ==
    poster.kind = "path" =>
        /\ \A k \in LinesNamed("meta") :
              poster.lines[k].ink_bottom = poster.height - 60
        /\ (LinesNamed("season") # {})
              <=> (pmeta.media_type = "series" /\ pmeta.season # None)
        /\ \A j \in LinesNamed("season"), k \in LinesNamed("meta") :
              poster.lines[j].ink_bottom <= poster.lines[k].ink_top
        /\ \A j \in LinesNamed("title"), k \in 1..Len(poster.lines) :
              k # j => poster.lines[j].ink_bottom <= poster.lines[k].ink_top
        /\ \A k \in 2..Len(poster.lines) :
              poster.lines[k].bottom_y < poster.lines[k - 1].top_y

\* the text of the metadata line of the poster, empty when none is drawn
DrawnMetaLine ==
    IF LinesNamed("meta") = {} THEN <<>>
    ELSE poster.lines[CHOOSE k \in LinesNamed("meta") : TRUE].text

\* the parts the metadata line is said to consist of
ClaimedYear(m, tmdb) ==
    IF m.year # None THEN m.year
    ELSE IF tmdb.kind = "dict" THEN tmdb.data.release_year ELSE None
ClaimedQuality(m) == IF m.quality # <<>> THEN m.quality ELSE m.rip_type
ClaimedRating(tmdb) == IF tmdb.kind = "dict" THEN tmdb.data.vote_average ELSE 0
ClaimedParts(m, tmdb) ==
    (IF ClaimedYear(m, tmdb) # None
     THEN <<StrOfInt(ClaimedYear(m, tmdb)[1])>> ELSE <<>>)
    \o (IF ClaimedQuality(m) # <<>> THEN <<ClaimedQuality(m)>> ELSE <<>>)
    \o (IF ClaimedRating(tmdb) # 0
        THEN <<(<<"star", " ">> \o StrOfTenths(ClaimedRating(tmdb)))>> ELSE <<>>)

\* C16: the metadata line consists, in this order and joined by the
\* separator, of the year (the parsed one, else the release year of the
\* catalog), the quality tag or, when there is none, the rip tag, and the
\* star rating when the enrichment has one; absent parts are omitted.
C16_MetaLine ==
    poster.kind = "path" =>
        DrawnMetaLine = Join(Bullet, ClaimedParts(pmeta, ptmdb))

(***************************************************************************)
(* Properties of process_file                                              *)
(***************************************************************************)
IsPrefix(a, b) == Len(a) <= Len(b) /\ SubSeq(b, 1, Len(a)) = a
Made(call) == \E k \in 1..Len(proc.trace) : proc.trace[k] = call

\* the calls of a run served from the cache, and of any other run
HitPath == <<"get", "send", "forward">>
MissPath == <<"get", "search", "render", "put", "send", "forward">>

\* the cache held an entry for the key of the file and the poster file of
\* the entry was on disk
HeldPoster == proc.entry.present /\ proc.there

\* C17: when the cache holds an entry for (lower-cased title, year,
\* media_type) whose poster file is on disk, neither the search nor the
\* renderer is invoked and the cached poster path is sent; otherwise the
\* search, the render and one cache put under that key are made in this
\* order before the poster is sent; the photo send precedes the forward.
C17_Order ==
    proc.trace # <<>> =>
        IF HeldPoster
        THEN /\ IsPrefix(proc.trace, HitPath)
             /\ proc.trace = <<"get">> => proc.pc = "send"
             /\ Made("send") => proc.poster_path = proc.entry.poster_path
        ELSE /\ IsPrefix(proc.trace, MissPath)
             /\ proc.trace = <<"get">> => proc.pc = "search"
             /\ Made("put") =>
                   proc.put_key = Some(<<StrLower(proc.meta.title), proc.meta.year,
                                         proc.meta.media_type>>)

\* a complete run that found an entry whose poster file was gone
C17_Witness ==
    /\ proc.pc = "done"
    /\ proc.entry.present
    /\ ~proc.there
    /\ proc.trace = MissPath

\* C19: the poster sent for a series file is the one rendered for the season
\* and episode of that file, whatever was processed and cached before.
C19_OwnEpisode ==
    ( /\ proc.meta.media_type = "series"
      /\ Made("send")
      /\ proc.poster_path # FALLBACK_POSTER )
    => /\ proc.sent.season = proc.meta.season
       /\ proc.sent.episode = proc.meta.episode
       /\ proc.poster_path = output_path(proc.meta)

\* C20: when the last search for a key ended with the no-match marker of a
\* failed request, or with an enrichment whose download failed, a later run
\* for that key queries the catalog again before it sends a poster.
C20_DegradedNotPermanent ==
    ( /\ KeyOf(proc.meta) \in degraded
      /\ Made("send") )
    => Made("search")

(***************************************************************************)
(* Properties of the artwork cache under concurrent runs                   *)
(***************************************************************************)
\* the run returned an enrichment that names a local artwork file
ReturnedArtwork(r) ==
    /\ run[r].pc = "returned"
    /\ run[r].result.kind = "dict"
    /\ run[r].result.data.local_poster_path # None

\* C18: whenever search returns a non-null local artwork path, the file
\* raw_<id>.jpg holds every chunk of the artwork, under every interleaving
\* of runs for the same catalog id and every failure of a download.
C18_CompleteArtwork ==
    \A r \in Runs :
        ReturnedArtwork(r) =>
            /\ run[r].result.data.local_poster_path = Some(Dest(run[r].best.id))
            /\ files[run[r].best.id].exists
            /\ files[run[r].best.id].chunks = 1..NumChunks

====
